---- MODULE Spec2Model ----
(***************************************************************************)
(* Term sheet generator (src/app.py): the placeholder substitution engine  *)
(* and the scenario table inserter, run on a python-docx document tree.    *)
(*                                                                         *)
(* A text is a sequence of one-character strings.  A block is a paragraph  *)
(* (a sequence of runs, each a text) or a table (rows of cells, each cell  *)
(* a sequence of blocks).  A document is a body (a sequence of blocks) and *)
(* a sequence of sections, each with a header and a footer (sequences of   *)
(* blocks).  Every paragraph is an object of its own, reached once by each *)
(* traversal (no merged cells, no header linked to the previous section).  *)
(* Amounts are floats with two decimals, held in hundredths.               *)
(***************************************************************************)
EXTENDS Integers, Sequences, FiniteSets, TLC

VARIABLES
    template_doc,   \* the document tree being mutated in place
    pc,             \* position in the Generate handler / in the direct call
    ph_i,           \* index of the next entry of the placeholders dict
    inputs,         \* the sidebar inputs of this run
    call,           \* the operation last executed, with its arguments
    before,         \* the document tree as it was when that operation began
    messages,       \* st.info / st.warning notices shown so far
    raised          \* the exception that ended the run, "" when none

vars == <<template_doc, pc, ph_i, inputs, call, before, messages, raised>>

(***************************************************************************)
(* Python strings                                                          *)
(***************************************************************************)

\* The text s without its first n characters: s[n:].
Drop(s, n) ==
    SubSeq(s, n + 1, Len(s))

\* s.startswith(p)
StartsWith(s, p) ==
    /\ Len(p) <= Len(s)
    /\ SubSeq(s, 1, Len(p)) = p

\* `sub in s` on strings.
Contains(s, sub) ==
    \E i \in 0..(Len(s) - Len(sub)) : SubSeq(s, i + 1, i + Len(sub)) = sub

\* A plausible slip: only the first occurrence is replaced (str.replace(old, new, 1)).
str_replace_first(s, old, new) ==
    IF Contains(s, old)
    THEN LET i == CHOOSE k \in 0..(Len(s) - Len(old)) :
                    /\ SubSeq(s, k + 1, k + Len(old)) = old
                    /\ \A j \in 0..(k - 1) : SubSeq(s, j + 1, j + Len(old)) # old
         IN  SubSeq(s, 1, i) \o new \o Drop(s, i + Len(old))
    ELSE s

\* s.replace(old, new) for a non-empty old: the non-overlapping occurrences
\* of old, found scanning from the left, each become new.
RECURSIVE str_replace(_, _, _)
str_replace(s, old, new) ==
    IF Len(s) < Len(old) THEN s
    ELSE IF StartsWith(s, old)
         THEN new \o str_replace(Drop(s, Len(old)), old, new)
         ELSE <<Head(s)>> \o str_replace(Tail(s), old, new)

\* "".join(parts)
RECURSIVE Join(_)
Join(parts) ==
    IF parts = <<>> THEN <<>> ELSE Head(parts) \o Join(Tail(parts))

(***************************************************************************)
(* Python values and str()                                                 *)
(***************************************************************************)

StrVal(s)   == [t |-> "str",   v |-> s]
IntVal(n)   == [t |-> "int",   v |-> n]
FloatVal(h) == [t |-> "float", v |-> h]     \* the float h / 100

Digit(d) ==
    <<"0", "1", "2", "3", "4", "5", "6", "7", "8", "9">>[d + 1]

\* The decimal digits of a natural number.
RECURSIVE Digits(_)
Digits(n) ==
    IF n < 10 THEN <<Digit(n)>> ELSE Digits(n \div 10) \o <<Digit(n % 10)>>

Sign(n) ==
    IF n < 0 THEN <<"-">> ELSE <<>>

Abs(n) ==
    IF n < 0 THEN -n ELSE n

\* A different rendering rule: an integral float without a decimal point,
\* any other float with four fractional digits.
py_str_fixed4(val) ==
    IF val.t = "str" THEN val.v
    ELSE IF val.t = "int" THEN Sign(val.v) \o Digits(Abs(val.v))
    ELSE IF val.v % 100 = 0
         THEN Sign(val.v) \o Digits(Abs(val.v) \div 100)
         ELSE Sign(val.v) \o Digits(Abs(val.v) \div 100) \o <<".">>
              \o <<Digit((Abs(val.v) % 100) \div 10), Digit(Abs(val.v) % 10), "0", "0">>

\* str(val).  A str is itself; an int is its digits; a float (here a
\* multiple of 0.01 below 1e16 in size) is its shortest repr, which always
\* has a decimal point and at least one fractional digit.
py_str(val) ==
    IF val.t = "str" THEN val.v
    ELSE IF val.t = "int" THEN Sign(val.v) \o Digits(Abs(val.v))
    ELSE Sign(val.v) \o Digits(Abs(val.v) \div 100) \o <<".">>
         \o (IF Abs(val.v) % 10 = 0
             THEN <<Digit((Abs(val.v) % 100) \div 10)>>
             ELSE <<Digit((Abs(val.v) % 100) \div 10), Digit(Abs(val.v) % 10)>>)

(***************************************************************************)
(* The python-docx document tree                                           *)
(***************************************************************************)

Para(runs) == [kind |-> "p",   runs |-> runs, rows |-> <<>>]
Tbl(rows)  == [kind |-> "tbl", runs |-> <<>>, rows |-> rows]

\* paragraph.text: the concatenation of the runs' text.
ParaText(para) ==
    Join(para.runs)

\* para.clear() followed by para.add_run(new_text): one run holds the text.
clear_add_run(para, new_text) ==
    [para EXCEPT !.runs = <<new_text>>]

\* A reference to a paragraph object: the part it lives in ("body", or the
\* "header" / "footer" of section sect), its index blk among that part's
\* children, and, when it sits in a cell of the table at blk, the cell's
\* row and column and the index inner among the cell's children (row = 0
\* for a paragraph that is a direct child of the part).
Ref(part, sect, blk, row, col, inner) ==
    [part |-> part, sect |-> sect, blk |-> blk, row |-> row, col |-> col, inner |-> inner]

None == Ref("None", 0, 0, 0, 0, 0)

\* The children of a part of the document.
Part(doc, part, sect) ==
    IF part = "body" THEN doc.body
    ELSE IF part = "header" THEN doc.sections[sect].header
    ELSE doc.sections[sect].footer

SetPart(doc, part, sect, blocks) ==
    IF part = "body" THEN [doc EXCEPT !.body = blocks]
    ELSE IF part = "header" THEN [doc EXCEPT !.sections[sect].header = blocks]
    ELSE [doc EXCEPT !.sections[sect].footer = blocks]

\* The sequence of blocks a referenced paragraph is a child of.
Siblings(doc, ref) ==
    IF ref.row = 0 THEN Part(doc, ref.part, ref.sect)
    ELSE Part(doc, ref.part, ref.sect)[ref.blk].rows[ref.row][ref.col]

SetSiblings(doc, ref, blocks) ==
    IF ref.row = 0 THEN SetPart(doc, ref.part, ref.sect, blocks)
    ELSE SetPart(doc, ref.part, ref.sect,
                 [Part(doc, ref.part, ref.sect) EXCEPT
                      ![ref.blk].rows[ref.row][ref.col] = blocks])

\* The index of a referenced paragraph among its siblings.
Pos(ref) ==
    IF ref.row = 0 THEN ref.blk ELSE ref.inner

\* The paragraph object behind a reference.
Deref(doc, ref) ==
    Siblings(doc, ref)[Pos(ref)]

\* A plausible slip: addprevious instead of addnext.
addprevious(s, i, x) ==
    SubSeq(s, 1, i - 1) \o <<x>> \o SubSeq(s, i, Len(s))

\* element.addnext(x) on the child at position i of the sequence s: x
\* becomes the sibling that directly follows it.
addnext(s, i, x) ==
    SubSeq(s, 1, i) \o <<x>> \o SubSeq(s, i + 1, Len(s))

(***************************************************************************)
(* Placeholder substitution                                                *)
(***************************************************************************)

\* A plausible slip: the containment test is dropped, so every paragraph is
\* rewritten as a single run.
replace_in_para_always(para, placeholder, replacement) ==
    clear_add_run(para, str_replace(ParaText(para), placeholder, py_str(replacement)))

\* The body of each paragraph loop: a paragraph whose text contains the
\* placeholder is rewritten as one run holding the replaced text.
replace_in_para(para, placeholder, replacement) ==
    IF Contains(ParaText(para), placeholder)
    THEN clear_add_run(para, str_replace(ParaText(para), placeholder, py_str(replacement)))
    ELSE para

\* `for para in X.paragraphs`: the paragraphs that are direct children.
replace_in_paragraphs(blocks, placeholder, replacement) ==
    [i \in 1..Len(blocks) |->
        IF blocks[i].kind = "p"
        THEN replace_in_para(blocks[i], placeholder, replacement)
        ELSE blocks[i]]

replace_text_in_cell_paragraphs_full(cell, placeholder, replacement) ==
    replace_in_paragraphs(cell, placeholder, replacement)

\* `for table in X.tables: for row in table.rows: for cell in row.cells`.
replace_in_tables(blocks, placeholder, replacement) ==
    [i \in 1..Len(blocks) |->
        IF blocks[i].kind = "tbl"
        THEN [blocks[i] EXCEPT !.rows =
                [r \in 1..Len(blocks[i].rows) |->
                    [c \in 1..Len(blocks[i].rows[r]) |->
                        replace_text_in_cell_paragraphs_full(
                            blocks[i].rows[r][c], placeholder, replacement)]]]
        ELSE blocks[i]]

replace_text_in_paragraphs_full(doc, placeholder, replacement) ==
    [doc EXCEPT !.body = replace_in_paragraphs(doc.body, placeholder, replacement)]

replace_text_in_tables_full(doc, placeholder, replacement) ==
    [doc EXCEPT !.body = replace_in_tables(doc.body, placeholder, replacement)]

replace_in_headers_and_footers(doc, placeholder, replacement) ==
    [doc EXCEPT !.sections =
        [s \in 1..Len(doc.sections) |->
            [header |-> replace_in_tables(
                            replace_in_paragraphs(doc.sections[s].header,
                                                  placeholder, replacement),
                            placeholder, replacement),
             footer |-> replace_in_tables(
                            replace_in_paragraphs(doc.sections[s].footer,
                                                  placeholder, replacement),
                            placeholder, replacement)]]]

\* One iteration of the loop over placeholders.items().
replace_everywhere(doc, placeholder, replacement) ==
    replace_in_headers_and_footers(
        replace_text_in_tables_full(
            replace_text_in_paragraphs_full(doc, placeholder, replacement),
            placeholder, replacement),
        placeholder, replacement)

(***************************************************************************)
(* Locating the table placeholder                                          *)
(***************************************************************************)

\* References to the paragraphs that are direct children of a part, in order.
ParagraphRefs(doc, part, sect) ==
    SelectSeq([i \in 1..Len(Part(doc, part, sect)) |-> Ref(part, sect, i, 0, 0, 0)],
              LAMBDA r : Part(doc, part, sect)[r.blk].kind = "p")

\* References to the paragraphs of every cell of every row of every table
\* that is a direct child of a part, in order.
CellParagraphRefs(doc, part, sect) ==
    LET blocks == Part(doc, part, sect)
    IN  Join([i \in 1..Len(blocks) |->
            IF blocks[i].kind # "tbl" THEN <<>>
            ELSE Join([r \in 1..Len(blocks[i].rows) |->
                    Join([c \in 1..Len(blocks[i].rows[r]) |->
                        SelectSeq([k \in 1..Len(blocks[i].rows[r][c]) |->
                                      Ref(part, sect, i, r, c, k)],
                                  LAMBDA x : blocks[i].rows[r][c][x.inner].kind = "p")])])])

\* The paragraphs find_paragraph_with_placeholder visits, in its order.
find_candidates(doc) ==
    ParagraphRefs(doc, "body", 0)
    \o CellParagraphRefs(doc, "body", 0)
    \o Join([s \in 1..Len(doc.sections) |->
                ParagraphRefs(doc, "header", s) \o ParagraphRefs(doc, "footer", s)])

find_paragraph_with_placeholder(doc, placeholder) ==
    LET hits == SelectSeq(find_candidates(doc),
                          LAMBDA r : Contains(ParaText(Deref(doc, r)), placeholder))
    IN  IF hits = <<>> THEN None ELSE Head(hits)

(***************************************************************************)
(* Building and placing the table                                          *)
(***************************************************************************)

\* col_names is None or a list; NoColNames is None.
ColNames(names) == [none |-> FALSE, names |-> names]
NoColNames      == [none |-> TRUE,  names |-> <<>>]

\* `if col_names`: neither None nor an empty list.
Truthy(col_names) ==
    ~col_names.none /\ col_names.names # <<>>

\* A cell of a new table holds one empty paragraph.
EmptyCell == <<Para(<<>>)>>

\* cell.text = text: the cell holds one paragraph of one run.
CellWithText(text) == <<Para(<<text>>)>>

\* A plausible slip: the header row is not counted.
table_rows_no_header(data, col_names) ==
    data

\* The rows of values written into the table, top to bottom: the header
\* (when truthy) is table row 0 and data row r is table row row_idx + r.
table_rows(data, col_names) ==
    (IF Truthy(col_names) THEN <<col_names.names>> ELSE <<>>) \o data

table_ncols(data, col_names) ==
    IF data # <<>> THEN Len(data[1])
    ELSE IF Truthy(col_names) THEN Len(col_names.names) ELSE 1

\* doc.add_table(rows, cols) and the two fill loops.  Writing cells[c] for
\* a c beyond the row's last cell raises IndexError and ends the loops:
\* the rows above are filled, the offending row up to its last cell, the
\* rows below not at all.
build_table(data, col_names) ==
    LET rows  == table_rows(data, col_names)
        ncols == table_ncols(data, col_names)
        bad   == {k \in 1..Len(rows) : Len(rows[k]) > ncols}
        stop  == IF bad = {} THEN Len(rows) + 1
                 ELSE CHOOSE k \in bad : \A j \in bad : k <= j
    IN  [table  |-> Tbl([k \in 1..Len(rows) |->
                        [c \in 1..ncols |->
                            IF k <= stop /\ c <= Len(rows[k])
                            THEN CellWithText(py_str(rows[k][c]))
                            ELSE EmptyCell]]),
         raised |-> IF bad = {} THEN "" ELSE "IndexError"]

\* The outcome of insert_table_after_paragraph: the document, the exception
\* that escaped ("" when none) and whether st.warning was shown.  add_table
\* puts the table at the end of the body; addnext then moves it behind the
\* paragraph, and fails (caught) when there is no paragraph object.
insert_table_after_paragraph(doc, paragraph, data, col_names) ==
    LET built    == build_table(data, col_names)
        appended == [doc EXCEPT !.body = Append(doc.body, built.table)]
    IN  IF built.raised # ""
        THEN [doc |-> appended, raised |-> built.raised, warned |-> FALSE]
        ELSE IF paragraph = None
        THEN [doc |-> appended, raised |-> "", warned |-> TRUE]
        ELSE [doc    |-> SetSiblings(doc, paragraph,
                             addnext(Siblings(doc, paragraph), Pos(paragraph),
                                     built.table)),
              raised |-> "",
              warned |-> FALSE]

(***************************************************************************)
(* Number formatting and the scenario rows                                 *)
(***************************************************************************)

TwoDigits(n) ==
    <<Digit(n \div 10), Digit(n % 10)>>

\* "{:.2f}".format(h / 100)
format_2f(h) ==
    Sign(h) \o Digits(Abs(h) \div 100) \o <<".">> \o TwoDigits(Abs(h) % 100)

\* The digits of a natural number in groups of three.
RECURSIVE Grouped(_)
Grouped(n) ==
    IF n < 1000 THEN Digits(n)
    ELSE Grouped(n \div 1000) \o <<",">>
         \o <<Digit((n % 1000) \div 100)>> \o TwoDigits(n % 100)

\* "{:,.2f}".format(h / 100)
format_comma_2f(h) ==
    Sign(h) \o Grouped(Abs(h) \div 100) \o <<".">> \o TwoDigits(Abs(h) % 100)

Max(a, b) ==
    IF a >= b THEN a ELSE b

payoff_call(spot_val, K) ==
    Max(0, spot_val - K)

payoff_put(spot_val, K) ==
    Max(0, K - spot_val)

payoff_forward(spot_val, K) ==
    spot_val - K

\* Legs carry whole-number multipliers here, so the sum is exact and
\* round(total, 2) leaves it as it is.
RECURSIVE combined_payoff(_, _)
combined_payoff(spot_val, legs_list) ==
    IF legs_list = <<>> THEN 0
    ELSE LET lg == Head(legs_list)
         IN  (IF lg.type = "Call" THEN lg.mult * payoff_call(spot_val, lg.strike)
              ELSE IF lg.type = "Put" THEN lg.mult * payoff_put(spot_val, lg.strike)
              ELSE IF lg.type = "Forward" THEN lg.mult * payoff_forward(spot_val, lg.strike)
              ELSE 0)
             + combined_payoff(spot_val, Tail(legs_list))

\* while val <= max_sp + 1e-9: spots.append(round(val, 2)); val += s_step
RECURSIVE spot_grid(_, _, _)
spot_grid(val, max_sp, s_step) ==
    IF val <= max_sp
    THEN <<val>> \o spot_grid(val + s_step, max_sp, s_step)
    ELSE <<>>

\* The default step when step_spot is not positive: 1.0.
DefaultStep == 100

spots(in) ==
    spot_grid(in.min_spot, in.max_spot,
              IF in.step_spot > 0 THEN in.step_spot ELSE DefaultStep)

\* One row per spot: [s, payoff, payoff_scaled], three floats.  The
\* notional is a whole number.
scenario_rows(in) ==
    [i \in 1..Len(spots(in)) |->
        LET payoff == combined_payoff(spots(in)[i], in.legs)
        IN  <<FloatVal(spots(in)[i]), FloatVal(payoff), FloatVal(payoff * in.notional)>>]

scenario_col_names(in) ==
    ColNames(<<StrVal(<<"Spot at Maturity">>),
               StrVal(<<"Payoff (per unit)">>),
               StrVal(<<"Payoff x Notional (">> \o format_comma_2f(in.notional * 100)
                      \o <<")">>)>>)

\* The placeholder tokens, each written with single braces and a one-letter
\* name: "{C}" is {{ClientName}}, "{K}" is {{Strike}}, "{T}" is
\* {{ScenarioTable}}.
PH_ClientName    == <<"{", "C", "}">>
PH_Strike        == <<"{", "K", "}">>
PH_ScenarioTable == <<"{", "T", "}">>

\* The placeholders dict, in insertion order; the entries left out are
\* formatted numbers and dates like {{Strike}}.
placeholders(in) ==
    << <<PH_ClientName, StrVal(in.client_name)>>,
       <<PH_Strike,     StrVal(format_2f(in.strike))>> >>

(***************************************************************************)
(* Templates and inputs explored                                           *)
(***************************************************************************)

\* The most data rows, and the widest row, of a direct call.
MaxDataRows == 2
MaxWidth    == 2
\* The most sections of a template.
MaxSections == 2

Plain == <<"x">>

\* Paragraph texts around the substituted placeholders.
SubstTexts ==
    { <<>>, Plain,
      PH_ClientName,
      <<"x">> \o PH_ClientName \o <<"y">> \o PH_ClientName,
      <<"{">> \o PH_ClientName \o <<"C", "}">>,
      <<"k", "=">> \o PH_Strike }

\* Paragraph texts around the table placeholder.
TableTexts ==
    { PH_ScenarioTable,
      <<"a">> \o PH_ScenarioTable \o <<"b">>,
      PH_ScenarioTable \o PH_ScenarioTable,
      <<"{">> \o PH_ScenarioTable \o <<"T", "}">> }

Texts == SubstTexts \cup TableTexts

FewTexts == {Plain, PH_ClientName, PH_ScenarioTable}

\* A paragraph holding text t: in one run, or cut into two runs after its
\* second character (which cuts a leading placeholder in two).
OneRun(t)  == IF t = <<>> THEN Para(<<>>) ELSE Para(<<t>>)
TwoRuns(t) == IF Len(t) < 3 THEN OneRun(t) ELSE Para(<<SubSeq(t, 1, 2), Drop(t, 2)>>)

Paras(t) == {OneRun(t), TwoRuns(t)}

\* A table of one row whose cells are the given ones.
RowTable(cells) == Tbl(<<cells>>)

\* A section that python-docx finds with no header or footer of its own
\* shows one empty paragraph in each.
BareSection == [header |-> <<Para(<<>>)>>, footer |-> <<Para(<<>>)>>]

BodyShapes(p, b) ==
    { <<p>>,
      <<p, OneRun(b)>>,
      <<p, TwoRuns(b)>>,
      <<p, RowTable(<< <<OneRun(b)>> >>)>>,
      <<RowTable(<< <<p>>, <<OneRun(b)>> >>)>>,
      <<RowTable(<< <<p, OneRun(b)>> >>), OneRun(Plain)>> }

Bodies ==
    UNION { BodyShapes(p, b) : p \in UNION {Paras(a) : a \in Texts}, b \in Texts }
    \cup {<<>>}

HeaderShapes(t) ==
    { <<OneRun(t)>>,
      <<RowTable(<< <<OneRun(t)>> >>)>>,
      <<OneRun(<<>>), RowTable(<< <<TwoRuns(t)>> >>)>> }

FooterShapes(t) ==
    { <<OneRun(t)>>, <<RowTable(<< <<OneRun(t)>> >>)>> }

\* The sections of a one-section template.
Sections ==
    UNION { { [header |-> h, footer |-> f] : h \in HeaderShapes(a), f \in FooterShapes(b) }
            : a \in Texts, b \in Texts }

\* The sections of a template with several.
FewSections ==
    { [header |-> <<OneRun(a)>>, footer |-> <<OneRun(b)>>] : a \in FewTexts, b \in FewTexts }
    \cup { [header |-> <<RowTable(<< <<OneRun(PH_ScenarioTable)>> >>)>>,
            footer |-> <<OneRun(Plain)>>] }

SectionSeqs ==
    { <<s>> : s \in Sections }
    \cup UNION { [1..n -> FewSections] : n \in 2..MaxSections }

Templates ==
    { [body |-> b, sections |-> <<BareSection>>] : b \in Bodies }
    \cup { [body |-> b, sections |-> ss] :
             b \in {<<OneRun(Plain)>>, <<OneRun(PH_ScenarioTable)>>}, ss \in SectionSeqs }

\* A few templates for the runs that vary the scenario inputs and for the
\* direct calls.
FewTemplates ==
    { [body |-> b, sections |-> <<s>>] :
        b \in { <<OneRun(Plain), OneRun(PH_ScenarioTable), OneRun(Plain)>>,
                <<OneRun(Plain), RowTable(<< <<OneRun(Plain)>> >>)>>,
                <<RowTable(<< <<OneRun(Plain), OneRun(PH_ScenarioTable)>> >>)>> },
        s \in { BareSection,
                [header |-> <<OneRun(PH_ScenarioTable), OneRun(Plain)>>,
                 footer |-> <<OneRun(Plain)>>] } }

Leg(type, strike, mult) == [type |-> type, strike |-> strike, mult |-> mult]

\* The sidebar defaults: strike 80.00, one grid row at 84.00.
DefaultInputs ==
    [client_name |-> <<"A">>, strike |-> 8000, notional |-> 1000,
     min_spot |-> 8400, max_spot |-> 8400, step_spot |-> 50,
     legs |-> <<Leg("Call", 8000, 1)>>]

\* Client names: empty, plain, and the placeholder's own text.
ClientNames == { <<>>, <<"A">>, PH_ClientName }

\* Scenario grids of no row, of the most rows and with the default step,
\* under two leg lists.
ScenarioInputs ==
    { [DefaultInputs EXCEPT !.max_spot = mx, !.step_spot = st, !.legs = lg] :
        mx \in {8350, 8400 + 50 * (MaxDataRows - 1)},
        st \in {0, 50},
        lg \in { <<Leg("Call", 8000, 1)>>,
                 <<Leg("Put", 8425, 2), Leg("Forward", 8000, -1)>> } }

NoCall ==
    [op |-> "", placeholder |-> <<>>, replacement |-> StrVal(<<>>),
     para |-> None, data |-> <<>>, col_names |-> NoColNames]

(***************************************************************************)
(* The Generate handler                                                    *)
(***************************************************************************)

Init ==
    /\ \/ /\ template_doc \in Templates
          /\ inputs \in {[DefaultInputs EXCEPT !.client_name = n] : n \in ClientNames}
       \/ /\ template_doc \in FewTemplates
          /\ inputs \in ScenarioInputs
    /\ pc = "replace"
    /\ ph_i = 1
    /\ call = NoCall
    /\ before = template_doc
    /\ messages = <<>>
    /\ raised = ""

\* for ph, val in placeholders.items(): the three replace passes for one
\* entry.
ReplacePlaceholder ==
    /\ pc = "replace"
    /\ LET ph  == placeholders(inputs)[ph_i][1]
           val == placeholders(inputs)[ph_i][2]
       IN  /\ template_doc' = replace_everywhere(template_doc, ph, val)
           /\ call' = [NoCall EXCEPT !.op = "replace", !.placeholder = ph,
                                     !.replacement = val]
    /\ before' = template_doc
    /\ ph_i' = ph_i + 1
    /\ pc' = IF ph_i = Len(placeholders(inputs)) THEN "table" ELSE "replace"
    /\ UNCHANGED <<inputs, messages, raised>>

\* The placeholder paragraph is found: its placeholder text is taken out
\* and the table is inserted behind it.
InsertAtPlaceholder ==
    /\ pc = "table"
    /\ LET para == find_paragraph_with_placeholder(template_doc, PH_ScenarioTable)
       IN  /\ para # None
           /\ LET cleared == SetSiblings(template_doc, para,
                                 [Siblings(template_doc, para) EXCEPT ![Pos(para)] =
                                     replace_in_para(@, PH_ScenarioTable, StrVal(<<>>))])
                  out     == insert_table_after_paragraph(cleared, para,
                                 scenario_rows(inputs), scenario_col_names(inputs))
              IN  /\ template_doc' = out.doc
                  /\ raised' = out.raised
                  /\ pc' = IF out.raised = "" THEN "save" ELSE "raised"
                  /\ messages' = IF out.warned
                                 THEN Append(messages, "warning: could not insert table")
                                 ELSE messages
           /\ call' = [NoCall EXCEPT !.op = "insert", !.placeholder = PH_ScenarioTable,
                                     !.para = para, !.data = scenario_rows(inputs),
                                     !.col_names = scenario_col_names(inputs)]
    /\ before' = template_doc
    /\ UNCHANGED <<ph_i, inputs>>

\* template_doc.paragraphs[-1]; None stands for the IndexError of an empty
\* list.
last_paragraph(doc) ==
    LET ps == ParagraphRefs(doc, "body", 0)
    IN  IF ps = <<>> THEN None ELSE ps[Len(ps)]

\* No paragraph is found: the table goes behind the last body paragraph
\* and st.info tells of it.
AppendAtEnd ==
    /\ pc = "table"
    /\ find_paragraph_with_placeholder(template_doc, PH_ScenarioTable) = None
    /\ IF last_paragraph(template_doc) = None
       THEN /\ raised' = "IndexError"
            /\ pc' = "raised"
            /\ UNCHANGED <<template_doc, messages>>
       ELSE LET out == insert_table_after_paragraph(template_doc,
                           last_paragraph(template_doc),
                           scenario_rows(inputs), scenario_col_names(inputs))
            IN  /\ template_doc' = out.doc
                /\ raised' = out.raised
                /\ pc' = IF out.raised = "" THEN "save" ELSE "raised"
                /\ messages' =
                     (IF out.warned
                      THEN Append(messages, "warning: could not insert table")
                      ELSE messages)
                     \o (IF out.raised = ""
                         THEN <<"info: placeholder not found, table appended at document end">>
                         ELSE <<>>)
    /\ call' = [NoCall EXCEPT !.op = "append", !.placeholder = PH_ScenarioTable,
                              !.data = scenario_rows(inputs),
                              !.col_names = scenario_col_names(inputs)]
    /\ before' = template_doc
    /\ UNCHANGED <<ph_i, inputs>>

\* template_doc.save(output) and the download button.
Save ==
    /\ pc = "save"
    /\ pc' = "done"
    /\ messages' = Append(messages, "success: document ready")
    /\ UNCHANGED <<template_doc, ph_i, inputs, call, before, raised>>

Next ==
    \/ ReplacePlaceholder
    \/ InsertAtPlaceholder
    \/ AppendAtEnd
    \/ Save

Spec == Init /\ [][Next]_vars

(***************************************************************************)
(* insert_table_after_paragraph called directly                            *)
(***************************************************************************)

\* Cell values of each Python type the rows may hold.
ValuePool ==
    <<FloatVal(8400), StrVal(<<"n", "a">>), FloatVal(8450), IntVal(82),
      FloatVal(-25), IntVal(-7)>>

\* The row of w values that starts at position off + 1 of the pool.
RowOf(w, off) ==
    [c \in 1..w |-> ValuePool[((off + c - 1) % Len(ValuePool)) + 1]]

DataRows ==
    {RowOf(w, off) : w \in 1..MaxWidth, off \in {0, 2, 4}}

\* Lists of up to MaxDataRows rows, of equal or of differing widths.
Datas ==
    UNION {[1..n -> DataRows] : n \in 0..MaxDataRows}

\* None, the empty list, and headers of up to MaxWidth + 1 names.
Headers ==
    {NoColNames}
    \cup {ColNames([c \in 1..w |-> StrVal(<<"h", Digit(c)>>)]) : w \in 0..(MaxWidth + 1)}

InitInsert ==
    /\ template_doc \in FewTemplates
    /\ \E para \in {find_candidates(template_doc)[i] :
                       i \in 1..Len(find_candidates(template_doc))} \cup {None},
          data \in Datas, col_names \in Headers :
          call = [NoCall EXCEPT !.op = "insert", !.para = para, !.data = data,
                                !.col_names = col_names]
    /\ pc = "call"
    /\ ph_i = 1
    /\ inputs = DefaultInputs
    /\ before = template_doc
    /\ messages = <<>>
    /\ raised = ""

CallInsert ==
    /\ pc = "call"
    /\ LET out == insert_table_after_paragraph(template_doc, call.para, call.data,
                                               call.col_names)
       IN  /\ template_doc' = out.doc
           /\ raised' = out.raised
           /\ pc' = IF out.raised = "" THEN "returned" ELSE "raised"
           /\ messages' = IF out.warned
                          THEN Append(messages, "warning: could not insert table")
                          ELSE messages
    /\ before' = template_doc
    /\ UNCHANGED <<ph_i, inputs, call>>

NextInsert ==
    CallInsert

SpecInsert == InitInsert /\ [][NextInsert]_vars

(***************************************************************************)
(* Properties: shared vocabulary                                           *)
(***************************************************************************)

\* The scan domain of the substitution engine, in its order: body
\* paragraphs, body table cells, then for every section its header
\* paragraphs, header table cells, footer paragraphs and footer table cells.
ScanDomain(doc) ==
    ParagraphRefs(doc, "body", 0)
    \o CellParagraphRefs(doc, "body", 0)
    \o Join([s \in 1..Len(doc.sections) |->
                ParagraphRefs(doc, "header", s) \o CellParagraphRefs(doc, "header", s)
                \o ParagraphRefs(doc, "footer", s) \o CellParagraphRefs(doc, "footer", s)])

Range(seq) ==
    {seq[i] : i \in 1..Len(seq)}

TextAt(doc, ref) ==
    ParaText(Deref(doc, ref))

\* new is old with every occurrence of marker, met scanning from the left,
\* replaced by value, and every other character kept in place.
RECURSIVE IsReplaced(_, _, _, _)
IsReplaced(old, new, marker, value) ==
    IF StartsWith(old, marker)
    THEN /\ StartsWith(new, value)
         /\ IsReplaced(Drop(old, Len(marker)), Drop(new, Len(value)), marker, value)
    ELSE IF old = <<>> THEN new = <<>>
    ELSE /\ new # <<>>
         /\ Head(new) = Head(old)
         /\ IsReplaced(Tail(old), Tail(new), marker, value)

\* A value text that cannot bring the marker back: it is not empty and no
\* character of it occurs in the marker.
CannotReform(marker, value) ==
    /\ value # <<>>
    /\ \A i \in 1..Len(value), j \in 1..Len(marker) : value[i] # marker[j]

\* The document with every scanned paragraph emptied: what is left is the
\* arrangement of paragraphs, tables, rows, cells and sections.
Skeleton(doc) ==
    LET Strip(blocks) ==
            [i \in 1..Len(blocks) |->
                IF blocks[i].kind = "p" THEN Para(<<>>)
                ELSE [blocks[i] EXCEPT !.rows =
                        [r \in 1..Len(blocks[i].rows) |->
                            [c \in 1..Len(blocks[i].rows[r]) |->
                                [k \in 1..Len(blocks[i].rows[r][c]) |->
                                    IF blocks[i].rows[r][c][k].kind = "p"
                                    THEN Para(<<>>)
                                    ELSE blocks[i].rows[r][c][k]]]]]]
    IN  [body     |-> Strip(doc.body),
         sections |-> [s \in 1..Len(doc.sections) |->
                          [header |-> Strip(doc.sections[s].header),
                           footer |-> Strip(doc.sections[s].footer)]]]

(***************************************************************************)
(* C1  Substitution completeness                                           *)
(***************************************************************************)

\* C1 as stated: after the pass for a (marker, value) pair no paragraph of
\* the scan domain contains the marker, and each paragraph's text is its
\* previous text with every occurrence of the marker replaced by the value.
C1_NoMarkerRemains ==
    call.op = "replace" =>
        \A r \in Range(ScanDomain(before)) :
            /\ ~Contains(TextAt(template_doc, r), call.placeholder)
            /\ IsReplaced(TextAt(before, r), TextAt(template_doc, r),
                          call.placeholder, py_str(call.replacement))

\* C1 amended: after the pass each paragraph of the scan domain holds its
\* previous text with every occurrence of the marker replaced by the value
\* and the surrounding text kept; the marker is gone from it whenever the
\* value's text is non-empty and shares no character with the marker (a
\* value that contains the marker, or completes one with the text around
\* it, brings it back).
C1_SubstitutionComplete ==
    call.op = "replace" =>
        \A r \in Range(ScanDomain(before)) :
            /\ IsReplaced(TextAt(before, r), TextAt(template_doc, r),
                          call.placeholder, py_str(call.replacement))
            /\ CannotReform(call.placeholder, py_str(call.replacement))
                   => ~Contains(TextAt(template_doc, r), call.placeholder)

\* A pass has rewritten a paragraph of a header table cell that held the
\* marker twice, between other text, with a value that cannot re-form it.
C1_Witness ==
    /\ call.op = "replace"
    /\ CannotReform(call.placeholder, py_str(call.replacement))
    /\ \E r \in Range(ScanDomain(before)) :
          /\ r.part = "header" /\ r.row > 0
          /\ TextAt(before, r) = <<"x">> \o PH_ClientName \o <<"y">> \o PH_ClientName
          /\ TextAt(template_doc, r) = <<"x", "A", "y", "A">>

(***************************************************************************)
(* C6  Substitution locality                                               *)
(***************************************************************************)

\* C6: a pass for a marker leaves every paragraph that does not contain it
\* as it was (same runs, same order), rewrites each paragraph that does as
\* a single run, and adds, removes or reorders no paragraph, table or
\* section.
C6_SubstitutionLocal ==
    call.op = "replace" =>
        /\ Skeleton(template_doc) = Skeleton(before)
        /\ \A r \in Range(ScanDomain(before)) :
              IF Contains(TextAt(before, r), call.placeholder)
              THEN Len(Deref(template_doc, r).runs) = 1
              ELSE Deref(template_doc, r) = Deref(before, r)

\* A pass has kept a two-run paragraph without the marker and collapsed a
\* two-run paragraph with it.
C6_Witness ==
    /\ call.op = "replace"
    /\ \E r \in Range(ScanDomain(before)) :
          /\ ~Contains(TextAt(before, r), call.placeholder)
          /\ Len(Deref(before, r).runs) = 2
          /\ Deref(template_doc, r) = Deref(before, r)
    /\ \E r \in Range(ScanDomain(before)) :
          /\ Contains(TextAt(before, r), call.placeholder)
          /\ Len(Deref(before, r).runs) = 2
          /\ Len(Deref(template_doc, r).runs) = 1

(***************************************************************************)
(* The table insertion of the Generate handler                             *)
(***************************************************************************)

\* The siblings of the located paragraph, before and after the insertion.
SiblingsBefore == Siblings(before, call.para)
SiblingsAfter  == Siblings(template_doc, call.para)

\* The table the handler built: its first row holds the column names.
IsScenarioTable(block) ==
    /\ block.kind = "tbl"
    /\ Len(block.rows) = Len(call.data) + 1
    /\ \A c \in 1..Len(call.col_names.names) :
          block.rows[1][c] = <<Para(<<call.col_names.names[c].v>>)>>

\* s is a sequence of Len(s) copies of marker, and of at least one.
IsRepetition(s, marker) ==
    /\ s # <<>>
    /\ Len(s) % Len(marker) = 0
    /\ \A k \in 0..((Len(s) \div Len(marker)) - 1) :
          SubSeq(s, k * Len(marker) + 1, (k + 1) * Len(marker)) = marker

(***************************************************************************)
(* C2  Splice position                                                     *)
(***************************************************************************)

\* C2 as stated: the marker paragraph, found at position i among its
\* siblings, has been removed and the new table stands at i, directly
\* behind the node that was at i - 1; the other siblings keep their order.
C2_TableReplacesMarkerParagraph ==
    call.op = "insert" =>
        LET i == Pos(call.para)
        IN  /\ Len(SiblingsAfter) = Len(SiblingsBefore)
            /\ IsScenarioTable(SiblingsAfter[i])
            /\ \A j \in 1..Len(SiblingsBefore) :
                  j # i => SiblingsAfter[j] = SiblingsBefore[j]

\* C2 amended: the marker paragraph, found at position i among its
\* siblings, stays at i (with the marker text taken out) and the new table
\* is the node directly behind it, at i + 1; the siblings before i and
\* behind i keep their content and order, and nothing else in the document
\* changes.
C2_TableFollowsMarkerParagraph ==
    call.op = "insert" =>
        LET i == Pos(call.para)
        IN  /\ raised = ""
            /\ Len(SiblingsAfter) = Len(SiblingsBefore) + 1
            /\ \A j \in 1..(i - 1) : SiblingsAfter[j] = SiblingsBefore[j]
            /\ SiblingsAfter[i].kind = "p"
            /\ IsScenarioTable(SiblingsAfter[i + 1])
            /\ \A j \in (i + 1)..Len(SiblingsBefore) :
                  SiblingsAfter[j + 1] = SiblingsBefore[j]
            /\ SetSiblings(template_doc, call.para, SiblingsBefore) = before

\* A table was inserted behind a marker paragraph that has a sibling on
\* either side.
C2_Witness ==
    /\ call.op = "insert"
    /\ Pos(call.para) > 1
    /\ Pos(call.para) < Len(SiblingsBefore)
    /\ Len(call.data) = 2
    /\ IsScenarioTable(SiblingsAfter[Pos(call.para) + 1])

(***************************************************************************)
(* C3  The marker paragraph after the insertion                            *)
(***************************************************************************)

\* C3 as stated: after an insertion at a found marker paragraph, that
\* paragraph is gone from the tree or its text is empty.
C3_MarkerParagraphAbsentOrEmpty ==
    call.op = "insert" =>
        \/ Len(SiblingsAfter) = Len(SiblingsBefore)
        \/ /\ SiblingsAfter[Pos(call.para)].kind = "p"
           /\ ParaText(SiblingsAfter[Pos(call.para)]) = <<>>

\* C3 amended: after an insertion at a found marker paragraph, that
\* paragraph is still in the tree, as one run holding its previous text
\* with every occurrence of the marker token taken out and the text before
\* and after it kept; it is empty exactly when its text was nothing but
\* marker tokens.
C3_MarkerTokenRemoved ==
    call.op = "insert" =>
        LET old == TextAt(before, call.para)
            new == SiblingsAfter[Pos(call.para)]
        IN  /\ new.kind = "p"
            /\ Len(new.runs) = 1
            /\ IsReplaced(old, ParaText(new), PH_ScenarioTable, <<>>)
            /\ ParaText(new) = <<>> <=> IsRepetition(old, PH_ScenarioTable)

\* An insertion at a marker paragraph with text on both sides of the token.
C3_Witness ==
    /\ call.op = "insert"
    /\ TextAt(before, call.para) = <<"a">> \o PH_ScenarioTable \o <<"b">>
    /\ TextAt(template_doc, call.para) = <<"a", "b">>

(***************************************************************************)
(* C4  Fallback placement                                                  *)
(***************************************************************************)

MarkerAbsent(doc) ==
    \A r \in Range(ScanDomain(doc)) : ~Contains(TextAt(doc, r), PH_ScenarioTable)

\* C4: when the table marker is nowhere in the scan domain, the new table
\* becomes the last child of the body, whatever the body ends with, a
\* notice is shown, and the original body nodes and sections are as they
\* were.  (Stated for bodies with a paragraph; a body with none ends the
\* handler with IndexError at paragraphs[-1].)
C4_FallbackAppendsLast ==
    (/\ call.op = "append"
     /\ MarkerAbsent(before)
     /\ last_paragraph(before) # None) =>
        /\ raised = ""
        /\ Len(template_doc.body) = Len(before.body) + 1
        /\ IsScenarioTable(template_doc.body[Len(template_doc.body)])
        /\ SubSeq(template_doc.body, 1, Len(before.body)) = before.body
        /\ template_doc.sections = before.sections
        /\ \E k \in 1..Len(messages) :
              messages[k] = "info: placeholder not found, table appended at document end"

(***************************************************************************)
(* C10  Locator coverage and order                                         *)
(***************************************************************************)

\* The paragraphs of the scan domain whose text contains the table marker.
MarkerHits(doc) ==
    SelectSeq(ScanDomain(doc), LAMBDA r : Contains(TextAt(doc, r), PH_ScenarioTable))

\* C10: the locator returns the first paragraph of the scan domain (body
\* paragraphs, body table cells, then the header and footer paragraphs and
\* table cells of every section) whose text contains the marker, and the
\* fallback append is taken only when no paragraph of the scan domain
\* contains it.
C10_LocatorCoversScanDomain ==
    /\ call.op = "append" => MarkerHits(before) = <<>>
    /\ call.op = "insert" => call.para = Head(MarkerHits(before))

(***************************************************************************)
(* Properties of insert_table_after_paragraph called directly              *)
(***************************************************************************)

\* The call is over, by return or by an exception.
CallOver ==
    call.op = "insert" /\ pc \in {"returned", "raised"}

\* The table the call created: where addnext put it, or, when the call
\* raised or had no paragraph to put it behind, at the end of the body
\* where add_table put it.
NewTable ==
    IF raised # "" \/ call.para = None
    THEN template_doc.body[Len(template_doc.body)]
    ELSE Siblings(template_doc, call.para)[Pos(call.para) + 1]

\* The text of a table cell: that of its only paragraph.
CellText(cell) ==
    ParaText(cell[1])

HasHeader ==
    Truthy(call.col_names)

HeaderRows ==
    IF HasHeader THEN 1 ELSE 0

\* All data rows have the width of the first.
EqualWidth(data) ==
    \A r \in 1..Len(data) : Len(data[r]) = Len(data[1])

\* Some data row is shorter or longer than the first.
Ragged(data) ==
    ~EqualWidth(data)

(***************************************************************************)
(* C5  Table shape                                                         *)
(***************************************************************************)

DigitChars == {"0", "1", "2", "3", "4", "5", "6", "7", "8", "9"}

DigitValue(ch) ==
    CHOOSE d \in 0..9 : Digit(d) = ch

\* The number a non-empty sequence of digit characters writes.
RECURSIVE Number(_)
Number(ds) ==
    IF Len(ds) = 1 THEN DigitValue(ds[1])
    ELSE 10 * Number(SubSeq(ds, 1, Len(ds) - 1)) + DigitValue(ds[Len(ds)])

Unsigned(text) ==
    IF text # <<>> /\ Head(text) = "-" THEN Tail(text) ELSE text

IsNegative(text) ==
    text # <<>> /\ Head(text) = "-"

HasPoint(text) ==
    \E i \in 1..Len(text) : text[i] = "."

\* The digits after the decimal point.
Fraction(text) ==
    LET i == CHOOSE k \in 1..Len(text) : text[k] = "."
    IN  Drop(text, i)

\* The digits before the decimal point, without the sign.
Whole(text) ==
    LET u == Unsigned(text)
        i == CHOOSE k \in 1..Len(u) : u[k] = "."
    IN  SubSeq(u, 1, i - 1)

\* text writes the integer n: an optional sign and digits, no point.
WritesInt(text, n) ==
    /\ ~HasPoint(text)
    /\ Unsigned(text) # <<>>
    /\ \A i \in 1..Len(Unsigned(text)) : Unsigned(text)[i] \in DigitChars
    /\ IsNegative(text) <=> n < 0
    /\ Number(Unsigned(text)) = Abs(n)

\* text writes h hundredths with a decimal point and exactly k fractional
\* digits, k >= 1; digits beyond the second are zeros.
WritesDecimal(text, h, k) ==
    /\ HasPoint(text)
    /\ Len(Fraction(text)) = k
    /\ Whole(text) # <<>>
    /\ \A i \in 1..Len(Whole(text)) : Whole(text)[i] \in DigitChars
    /\ \A i \in 1..k : Fraction(text)[i] \in DigitChars
    /\ \A i \in 3..k : Fraction(text)[i] = "0"
    /\ IsNegative(text) <=> h < 0
    /\ Number(Whole(text)) = Abs(h) \div 100
    /\ Abs(h) % 100 = IF k = 1 THEN 10 * Number(Fraction(text))
                      ELSE Number(SubSeq(Fraction(text), 1, 2))

\* The text of the cell that data[r][c] was written into.
WrittenText(r, c) ==
    CellText(NewTable.rows[r + HeaderRows][c])

\* C7 as stated: an integral float is written without a decimal point, any
\* other float with exactly four fractional digits, an int as its digits
\* and a non-numeric value as it is.
C7_IntegralWithoutPointElseFourDigits ==
    (CallOver /\ raised = "") =>
        \A r \in 1..Len(call.data) : \A c \in 1..Len(call.data[r]) :
            LET val == call.data[r][c]
            IN  /\ val.t = "str" => WrittenText(r, c) = val.v
                /\ val.t = "int" => WritesInt(WrittenText(r, c), val.v)
                /\ (val.t = "float" /\ val.v % 100 = 0)
                       => WritesInt(WrittenText(r, c), val.v \div 100)
                /\ (val.t = "float" /\ val.v % 100 # 0)
                       => WritesDecimal(WrittenText(r, c), val.v, 4)

\* C7 amended: each value is written as str() gives it.  A float always
\* has a decimal point: one fractional digit when it is a multiple of 0.1
\* (84.0 gives "84.0", 84.5 gives "84.5"), two otherwise (-0.25 gives
\* "-0.25"); an int is its digits and a non-numeric value is written as it
\* is.  (The floats are the handler's: rounded to two decimals.)
C7_RenderedByStr ==
    (CallOver /\ raised = "") =>
        \A r \in 1..Len(call.data) : \A c \in 1..Len(call.data[r]) :
            LET val == call.data[r][c]
            IN  /\ val.t = "str" => WrittenText(r, c) = val.v
                /\ val.t = "int" => WritesInt(WrittenText(r, c), val.v)
                /\ (val.t = "float" /\ val.v % 10 = 0)
                       => WritesDecimal(WrittenText(r, c), val.v, 1)
                /\ (val.t = "float" /\ val.v % 10 # 0)
                       => WritesDecimal(WrittenText(r, c), val.v, 2)

\* A call has written the floats 84.0 and 84.5: "84.0" and "84.5".
C7_Witness ==
    /\ CallOver /\ raised = ""
    /\ \E r \in 1..Len(call.data) : \E c \in 1..Len(call.data[r]) :
          /\ call.data[r][c] = FloatVal(8400)
          /\ WrittenText(r, c) = <<"8", "4", ".", "0">>
    /\ \E r \in 1..Len(call.data) : \E c \in 1..Len(call.data[r]) :
          /\ call.data[r][c] = FloatVal(8450)
          /\ WrittenText(r, c) = <<"8", "4", ".", "5">>

(***************************************************************************)
(* C8  Ragged rows                                                         *)
(***************************************************************************)

\* C8: for data rows whose widths differ from the first row's, shorter or
\* longer, the call completes without raising and the table is in the
\* document.
C8_RaggedRowsNonFatal ==
    (CallOver /\ Ragged(call.data)) =>
        /\ raised = ""
        /\ NewTable.kind = "tbl"
        /\ Len(NewTable.rows) = Len(call.data) + HeaderRows

(***************************************************************************)
(* C9  Atomicity of the insertion                                          *)
(***************************************************************************)

\* C9: an insertion that fails leaves the document tree as it was when the
\* operation began.
C9_FailureLeavesTreeUnchanged ==
    (CallOver /\ raised # "") => template_doc = before

====
